---- MODULE Spec2Model ----
(***************************************************************************)
(* Model of the research cache (src/src/club_research_manager.py), of the  *)
(* campaign status tracker with its notification log                       *)
(* (src/src/club_status_manager.py), and of the email generation with its  *)
(* tracking file (src/src/email_personalizer.py).                          *)
(*                                                                         *)
(* Each CSV file is a variable holding the sequence of its rows, so that   *)
(* "one row per club" is a property of the operations and not of the       *)
(* representation.  Texts are sequences of tokens: "w" is a word, " " is   *)
(* white space, and each of the three section markers is one token.        *)
(* The clock `now` counts days.  Money is counted in nano-dollars so that  *)
(* every rate of the pricing table is an integer.                          *)
(***************************************************************************)
EXTENDS Integers, Sequences, FiniteSets, TLC

VARIABLES
    now,               \* datetime.now(), in days
    ticks,             \* how many times the clock has advanced
    research_df,       \* club_research_results.csv: sequence of rows
    research_log,      \* per club, the last two research_club_with_o3 calls
    research_ret,      \* what the last research_club_with_o3 call returned
    status_df,         \* data/club_status_tracking.csv: sequence of rows
    notifications_df,  \* data/notifications.csv: sequence of rows
    status_ret,        \* the last status-manager call and its return value
    calls,             \* how many status-manager calls have been made
    full_research,     \* argument of _parse_research_sections
    parsed,            \* its result, None before the call
    cost_call,         \* arguments of calculate_token_cost
    cost_ret,          \* its result, None before the call
    tracking_df,       \* the email tracking CSV: sequence of rows
    email_ret,         \* the last EmailPersonalizer call and what it returned
    email_calls,       \* how many research and email calls have been made
    charged,           \* the sum of what every CostTracker has added up
    responses_df,      \* data/email_responses.csv: sequence of rows
    response_ret,      \* the last save_response call and its return value
    response_calls,    \* how many save_response calls have been made
    writers,           \* concurrent status-manager calls: position and locals
    researchers        \* concurrent research_club_with_o3 calls: the same

vars == <<now, ticks, research_df, research_log, research_ret,
          status_df, notifications_df, status_ret, calls, full_research, parsed,
          cost_call, cost_ret, tracking_df, email_ret, email_calls, charged,
          responses_df, response_ret, response_calls, writers, researchers>>

research_vars == <<research_df, research_log, research_ret>>
status_vars   == <<status_df, notifications_df, status_ret, calls>>
parse_vars    == <<full_research, parsed>>
cost_vars     == <<cost_call, cost_ret>>
email_vars    == <<tracking_df, email_ret, email_calls, charged>>
response_vars == <<responses_df, response_ret, response_calls>>
race_vars     == <<writers, researchers>>

(***************************************************************************)
(* Bounds of the model                                                     *)
(***************************************************************************)
MaxTicks == 2
MaxEvents == 4
MaxLen == 3
MaxTokens == 3
MaxEmailEvents == 4
MaxTrackingEvents == 3

Clubs == {"ClubA", "ClubB"}
Procs == {"p1", "p2"}
TickSteps == {1, 29}

(***************************************************************************)
(* Program constants                                                       *)
(***************************************************************************)
cache_expiry_days == 30
WEB_SEARCH_COST_PER_QUERY == 10000000
SEARCH_MODEL == "o3"
CONTENT_MODEL == "gpt-4.1-nano"

None == [none |-> TRUE]
NaN == <<"NaN">>
NaT == -1

INTRO_MARKER == "=== INTRODUCTION EMAIL RESEARCH ==="
CHECKUP_MARKER == "=== CHECK-UP EMAIL RESEARCH ==="
ACCEPTANCE_MARKER == "=== ACCEPTANCE EMAIL RESEARCH ==="

Tokens == {"w", " ", INTRO_MARKER, CHECKUP_MARKER, ACCEPTANCE_MARKER}

(***************************************************************************)
(* Python string operations on token sequences                             *)
(***************************************************************************)
Min(S) == CHOOSE x \in S : \A y \in S : x <= y

\* str.find: 0-based index of the first occurrence, -1 when absent
find(s, tok) ==
    LET hits == {i \in 1..Len(s) : s[i] = tok}
    IN  IF hits = {} THEN -1 ELSE Min(hits) - 1

\* s[a:b] for 0 <= a and 0 <= b <= len(s)
slice(s, a, b) == SubSeq(s, a + 1, b)

RECURSIVE lstrip(_)
lstrip(s) == IF s # <<>> /\ Head(s) = " " THEN lstrip(Tail(s)) ELSE s

RECURSIVE rstrip(_)
rstrip(s) ==
    IF s # <<>> /\ s[Len(s)] = " " THEN rstrip(SubSeq(s, 1, Len(s) - 1)) ELSE s

strip(s) == rstrip(lstrip(s))

\* str.replace(tok, "")
remove(s, tok) == SelectSeq(s, LAMBDA t : t # tok)

(***************************************************************************)
(* CostTracker                                                             *)
(***************************************************************************)
PRICING ==
    [m \in {"o3", "gpt-4.1-nano"} |->
        IF m = "o3"
        THEN [input |-> 2000, cached_input |-> 500, output |-> 8000]
        ELSE [input |-> 100, cached_input |-> 25, output |-> 400]]

CostTracker ==
    [search_cost |-> 0, content_cost |-> 0, web_search_cost |-> 0, total_cost |-> 0]

Max(a, b) == IF a >= b THEN a ELSE b

\* Mutant: the cached tokens are not taken out of the regular input
calculate_token_cost_counts_cached_twice(model, input_tokens, output_tokens, cached_tokens) ==
    IF model \notin DOMAIN PRICING THEN 0
    ELSE LET regular_input_tokens == input_tokens
             input_cost == regular_input_tokens * PRICING[model].input
             cached_cost == IF cached_tokens > 0
                            THEN cached_tokens * PRICING[model].cached_input
                            ELSE 0
             output_cost == output_tokens * PRICING[model].output
         IN  input_cost + cached_cost + output_cost

calculate_token_cost(model, input_tokens, output_tokens, cached_tokens) ==
    IF model \notin DOMAIN PRICING THEN 0
    ELSE LET regular_input_tokens == Max(0, input_tokens - cached_tokens)
             input_cost == regular_input_tokens * PRICING[model].input
             cached_cost == IF cached_tokens > 0
                            THEN cached_tokens * PRICING[model].cached_input
                            ELSE 0
             output_cost == output_tokens * PRICING[model].output
         IN  input_cost + cached_cost + output_cost

add_search_cost(costs, input_tokens, output_tokens, cached_tokens) ==
    LET cost == calculate_token_cost(SEARCH_MODEL, input_tokens, output_tokens,
                                     cached_tokens)
    IN  [costs EXCEPT !.search_cost = @ + cost, !.total_cost = @ + cost]

add_web_search_cost(costs, num_queries) ==
    LET cost == num_queries * WEB_SEARCH_COST_PER_QUERY
    IN  [costs EXCEPT !.web_search_cost = @ + cost, !.total_cost = @ + cost]

(***************************************************************************)
(* ClubResearchManager                                                     *)
(***************************************************************************)
\* pd.read_csv reads an empty text field back as NaN
read_csv_text(t) == IF t = <<>> THEN NaN ELSE t

\* research_df[research_df['club_name'] == club_name]
club_research_rows(df, club_name) == SelectSeq(df, LAMBDA r : r.club_name = club_name)

\* Mutant: the filter keeps every row
drop_club_rows_keeps_all(df, club_name) == df

\* research_df[research_df['club_name'] != club_name]
drop_club_rows(df, club_name) == SelectSeq(df, LAMBDA r : r.club_name # club_name)

\* Mutant: the comparison is turned around
is_fresh_inverted(t, expires_at) == t > expires_at

\* Mutant: a record is still served at the instant it expires
is_fresh_inclusive(t, expires_at) == t <= expires_at

\* datetime.now() < expires_at
is_fresh(t, expires_at) == t < expires_at

\* Returns the cached dict (or None) and the file as the call leaves it.
get_cached_research(df, club_name, t) ==
    LET club_research == club_research_rows(df, club_name)
    IN  IF club_research # <<>>
        THEN LET research_entry == club_research[1]
             IN  IF is_fresh(t, research_entry.expires_at)
                 THEN [result |->
                          [introduction_research |->
                               read_csv_text(research_entry.introduction_research),
                           checkup_research |->
                               read_csv_text(research_entry.checkup_research),
                           acceptance_research |->
                               read_csv_text(research_entry.acceptance_research),
                           full_research_data |->
                               read_csv_text(research_entry.full_research_data),
                           search_cost |-> research_entry.search_cost,
                           web_search_cost |-> research_entry.web_search_cost,
                           total_cost |-> research_entry.total_cost,
                           researched_at |-> research_entry.researched_at,
                           from_cache |-> TRUE],
                       df |-> df]
                 ELSE [result |-> None, df |-> drop_club_rows(df, club_name)]
        ELSE [result |-> None, df |-> df]

_parse_research_sections(text) ==
    LET intro_start == find(text, INTRO_MARKER)
        checkup_start == find(text, CHECKUP_MARKER)
        acceptance_start == find(text, ACCEPTANCE_MARKER)
        intro_content ==
            IF checkup_start # -1
            THEN strip(slice(text, intro_start, checkup_start))
            ELSE strip(slice(text, intro_start, Len(text)))
        checkup_content ==
            IF acceptance_start # -1
            THEN strip(slice(text, checkup_start, acceptance_start))
            ELSE strip(slice(text, checkup_start, Len(text)))
        acceptance_content == strip(slice(text, acceptance_start, Len(text)))
    IN  [introduction_research |->
             IF intro_start # -1
             THEN strip(remove(intro_content, INTRO_MARKER)) ELSE <<>>,
         checkup_research |->
             IF checkup_start # -1
             THEN strip(remove(checkup_content, CHECKUP_MARKER)) ELSE <<>>,
         acceptance_research |->
             IF acceptance_start # -1
             THEN strip(remove(acceptance_content, ACCEPTANCE_MARKER)) ELSE <<>>,
         full_research_data |-> text,
         from_cache |-> FALSE]

\* The fallback texts name the club; every one of them has words in it.
fallback_sections(club_name) ==
    [introduction_research |-> <<"Unable to find specific current information about", club_name>>,
     checkup_research |-> <<"No specific upcoming events or challenges found for", club_name>>,
     acceptance_research |-> <<"No specific club structure information found for", club_name>>,
     full_research_data |-> <<"Research failed for", club_name>>,
     from_cache |-> FALSE]

expiry_of(researched_at) == researched_at + cache_expiry_days

_save_research_to_csv(df, club_name, research_sections, text, costs, t) ==
    LET researched_at == t
        expires_at == expiry_of(researched_at)
        new_entry ==
            [club_name |-> club_name,
             introduction_research |-> research_sections.introduction_research,
             checkup_research |-> research_sections.checkup_research,
             acceptance_research |-> research_sections.acceptance_research,
             full_research_data |-> text,
             search_cost |-> costs.search_cost,
             web_search_cost |-> costs.web_search_cost,
             total_cost |-> costs.total_cost,
             researched_at |-> researched_at,
             expires_at |-> expires_at,
             is_valid |-> TRUE]
    IN  Append(drop_club_rows(df, club_name), new_entry)

(***************************************************************************)
(* The external generator: it fails, or it answers with a text and maybe   *)
(* with a usage report.                                                    *)
(***************************************************************************)
GeneratorTexts ==
    { <<INTRO_MARKER, "w", CHECKUP_MARKER, "w", ACCEPTANCE_MARKER, "w">>,
      <<"w", " ", "w">> }

GeneratorUsages ==
    { None, [prompt_tokens |-> 1000, completion_tokens |-> 500, prompt_tokens_cached |-> 200] }

GeneratorOutcomes ==
    {[ok |-> FALSE]} \cup
    {[ok |-> TRUE, content |-> c, usage |-> u] : c \in GeneratorTexts, u \in GeneratorUsages}

\* The try block of research_club_with_o3 when the generator answers
research_answered(df, club_name, outcome, cost_tracker, t) ==
    LET costs == IF outcome.usage # None
                 THEN add_search_cost(cost_tracker,
                                      outcome.usage.prompt_tokens,
                                      outcome.usage.completion_tokens,
                                      outcome.usage.prompt_tokens_cached)
                 ELSE cost_tracker
        text == strip(outcome.content)
        research_sections == _parse_research_sections(text)
    IN  [raised |-> FALSE, sections |-> research_sections, costs |-> costs,
         df |-> _save_research_to_csv(df, club_name, research_sections,
                                      text, costs, t)]

\* Mutant: the exception of the generator is not caught
research_failed_unhandled(df, club_name, cost_tracker, t) ==
    [raised |-> TRUE, sections |-> None, costs |-> cost_tracker, df |-> df]

\* The except block of research_club_with_o3
research_failed(df, club_name, cost_tracker, t) ==
    LET sections == fallback_sections(club_name)
        costs == cost_tracker
    IN  [raised |-> FALSE, sections |-> sections, costs |-> costs,
         df |-> _save_research_to_csv(df, club_name, sections,
                                      sections.full_research_data, costs, t)]

\* The part of research_club_with_o3 after a cache miss: what it returns and
\* the file it leaves, given what the generator did.
research_after_miss(df, club_name, outcome, t) ==
    LET cost_tracker == add_web_search_cost(CostTracker, 1)
    IN  IF outcome.ok
        THEN research_answered(df, club_name, outcome, cost_tracker, t)
        ELSE research_failed(df, club_name, cost_tracker, t)

\* The cost dict returned next to a cached record
cached_costs(cached_research) ==
    [search_cost |-> cached_research.search_cost,
     web_search_cost |-> cached_research.web_search_cost,
     total_cost |-> cached_research.total_cost]

\* The window of a club's last two calls
log_call(log, club_name, entry) ==
    LET old == log[club_name]
        kept == IF Len(old) = 0 THEN <<>> ELSE <<old[Len(old)]>>
    IN  [log EXCEPT ![club_name] = Append(kept, entry)]

\* expires_at of the club's first row, NaT when the club has no row
stored_expiry(df, club_name) ==
    LET rows == club_research_rows(df, club_name)
    IN  IF rows = <<>> THEN NaT ELSE rows[1].expires_at

research_club_with_o3(club_name, outcome) ==
    LET cached == get_cached_research(research_df, club_name, now)
        prior == stored_expiry(research_df, club_name)
    IN  IF cached.result # None
        THEN /\ research_df' = cached.df
             /\ research_ret' =
                    [club_name |-> club_name, raised |-> FALSE,
                     sections |-> cached.result,
                     costs |-> cached_costs(cached.result)]
             /\ research_log' = log_call(research_log, club_name,
                    [at |-> now, from_cache |-> TRUE, generator |-> "not called",
                     generator_calls |-> 0, prior_expires_at |-> prior,
                     expires_at |-> stored_expiry(cached.df, club_name)])
        ELSE LET r == research_after_miss(cached.df, club_name, outcome, now)
             IN  /\ research_df' = r.df
                 /\ research_ret' =
                        [club_name |-> club_name, raised |-> r.raised,
                         sections |-> r.sections, costs |-> r.costs]
                 /\ research_log' = log_call(research_log, club_name,
                        [at |-> now, from_cache |-> FALSE,
                         generator |-> IF outcome.ok THEN "answered" ELSE "failed",
                         generator_calls |-> 1, prior_expires_at |-> prior,
                         expires_at |-> stored_expiry(r.df, club_name)])

Research(club_name, outcome) ==
    /\ research_club_with_o3(club_name, outcome)
    /\ UNCHANGED <<now, ticks, status_vars, parse_vars, cost_vars, email_vars,
                   response_vars, race_vars>>

Tick(d) ==
    /\ ticks < MaxTicks
    /\ now' = now + d
    /\ ticks' = ticks + 1
    /\ UNCHANGED <<research_vars, status_vars, parse_vars, cost_vars, email_vars,
                   response_vars, race_vars>>

Init ==
    /\ now = 0
    /\ ticks = 0
    /\ research_df = <<>>
    /\ research_log = [c \in Clubs |-> <<>>]
    /\ research_ret = None
    /\ status_df = <<>>
    /\ notifications_df = <<>>
    /\ status_ret = None
    /\ calls = 0
    /\ full_research = <<>>
    /\ parsed = None
    /\ cost_call = None
    /\ cost_ret = None
    /\ tracking_df = <<>>
    /\ email_ret = None
    /\ email_calls = 0
    /\ charged = 0
    /\ responses_df = <<>>
    /\ response_ret = None
    /\ response_calls = 0
    /\ writers = [p \in Procs |-> [pc |-> "idle"]]
    /\ researchers = [p \in Procs |-> [pc |-> "idle", done |-> 0]]

NextResearch ==
    \/ \E c \in Clubs, o \in GeneratorOutcomes : Research(c, o)
    \/ \E d \in TickSteps : Tick(d)

SpecResearch == Init /\ [][NextResearch]_vars

(***************************************************************************)
(* ClubStatusManager                                                       *)
(***************************************************************************)
EmailTypes == {"introduction", "checkup", "acceptance"}

EMAIL_SENT == "email_sent"
POSITIVE_RESPONSE == "positive_response"
NEGATIVE_RESPONSE == "negative_response"

\* What callers pass as response_type: the two enum values, and the
\* "neutral_response" the manual response form offers
ResponseTypes == {POSITIVE_RESPONSE, NEGATIVE_RESPONSE, "neutral_response"}

Notes == {"note"}

\* An empty cell of a text column
NoValue == "NaN"

\* df[df['club_name'] == club_name].index
club_idx(df, club_name) == {i \in 1..Len(df) : df[i].club_name = club_name}

\* The row update_email_sent appends for a club it has not seen
new_record(club_name, email_type, t) ==
    [club_name |-> club_name,
     sent_date |-> [e \in EmailTypes |-> NaT],
     status |-> [e \in EmailTypes |-> NoValue],
     response_date |-> [e \in EmailTypes |-> NaT],
     response_type |-> [e \in EmailTypes |-> NoValue],
     notes |-> [e \in EmailTypes |-> NoValue],
     current_stage |-> email_type,
     priority_level |-> "medium",
     created_at |-> t,
     updated_at |-> t,
     last_activity_date |-> t]

\* Mutant: a club without a record is not given one
update_email_sent_df_existing_only(df, club_name, email_type, notes, t) ==
    IF club_idx(df, club_name) = {}
    THEN df
    ELSE LET idx == Min(club_idx(df, club_name))
         IN  [df EXCEPT ![idx] =
                 [@ EXCEPT !.sent_date[email_type] = t,
                           !.status[email_type] = EMAIL_SENT,
                           !.notes[email_type] = notes,
                           !.current_stage = email_type,
                           !.last_activity_date = t,
                           !.updated_at = t]]

\* Mutant: a send puts the priority back to medium
update_email_sent_df_resets_priority(df, club_name, email_type, notes, t) ==
    LET df1 == IF club_idx(df, club_name) = {}
               THEN Append(df, new_record(club_name, email_type, t))
               ELSE df
        idx == Min(club_idx(df1, club_name))
    IN  [df1 EXCEPT ![idx] =
            [@ EXCEPT !.sent_date[email_type] = t,
                      !.status[email_type] = EMAIL_SENT,
                      !.notes[email_type] = notes,
                      !.current_stage = email_type,
                      !.priority_level = "medium",
                      !.last_activity_date = t,
                      !.updated_at = t]]

\* Mutant: every send creates a record
update_email_sent_df_always_creates(df, club_name, email_type, notes, t) ==
    LET df1 == Append(df, new_record(club_name, email_type, t))
        idx == Len(df1)
    IN  [df1 EXCEPT ![idx] =
            [@ EXCEPT !.sent_date[email_type] = t,
                      !.status[email_type] = EMAIL_SENT,
                      !.notes[email_type] = notes,
                      !.current_stage = email_type,
                      !.last_activity_date = t,
                      !.updated_at = t]]

\* Lines 79-105 of update_email_sent: the status file it writes
update_email_sent_df(df, club_name, email_type, notes, t) ==
    LET df1 == IF club_idx(df, club_name) = {}
               THEN Append(df, new_record(club_name, email_type, t))
               ELSE df
        idx == Min(club_idx(df1, club_name))
    IN  [df1 EXCEPT ![idx] =
            [@ EXCEPT !.sent_date[email_type] = t,
                      !.status[email_type] = EMAIL_SENT,
                      !.notes[email_type] = notes,
                      !.current_stage = email_type,
                      !.last_activity_date = t,
                      !.updated_at = t]]

\* Mutant: a positive response leaves the stage where the email put it
stage_after_response_stays(row, email_type, response_type) ==
    IF response_type = POSITIVE_RESPONSE
    THEN [row EXCEPT !.current_stage = email_type, !.priority_level = "high"]
    ELSE IF response_type = NEGATIVE_RESPONSE
    THEN [row EXCEPT !.current_stage = "not_interested",
                     !.priority_level = "low"]
    ELSE row

\* Mutant: a negative response closes the pipeline but keeps the priority
stage_after_response_keeps_priority(row, email_type, response_type) ==
    IF response_type = POSITIVE_RESPONSE
    THEN [row EXCEPT !.current_stage =
                         IF email_type = "introduction" THEN "checkup"
                         ELSE IF email_type = "checkup" THEN "acceptance"
                         ELSE IF email_type = "acceptance" THEN "partnership_active"
                         ELSE @,
                     !.priority_level = "high"]
    ELSE IF response_type = NEGATIVE_RESPONSE
    THEN [row EXCEPT !.current_stage = "not_interested"]
    ELSE row

\* Lines 138-149 of record_response: the stage and priority after a response
stage_after_response(row, email_type, response_type) ==
    IF response_type = POSITIVE_RESPONSE
    THEN [row EXCEPT !.current_stage =
                         IF email_type = "introduction" THEN "checkup"
                         ELSE IF email_type = "checkup" THEN "acceptance"
                         ELSE IF email_type = "acceptance" THEN "partnership_active"
                         ELSE @,
                     !.priority_level = "high"]
    ELSE IF response_type = NEGATIVE_RESPONSE
    THEN [row EXCEPT !.current_stage = "not_interested",
                     !.priority_level = "low"]
    ELSE row

\* Mutant: a response for an unknown club creates its record
record_response_df_upsert(df, club_name, email_type, response_type, notes, t) ==
    LET df1 == IF club_idx(df, club_name) = {}
               THEN Append(df, new_record(club_name, email_type, t))
               ELSE df
        idx == Min(club_idx(df1, club_name))
    IN  [found |-> TRUE,
         df |-> [df1 EXCEPT ![idx] =
                    [@ EXCEPT !.response_date[email_type] = t,
                              !.response_type[email_type] = response_type,
                              !.status[email_type] = response_type,
                              !.last_activity_date = t]]]

\* Lines 124-151 of record_response: whether the club was found, and the
\* status file the call leaves
record_response_df(df, club_name, email_type, response_type, notes, t) ==
    IF club_idx(df, club_name) = {}
    THEN [found |-> FALSE, df |-> df]
    ELSE LET idx == Min(club_idx(df, club_name))
             row == [df[idx] EXCEPT !.response_date[email_type] = t,
                                    !.response_type[email_type] = response_type,
                                    !.status[email_type] = response_type,
                                    !.notes[email_type] = notes,
                                    !.last_activity_date = t,
                                    !.updated_at = t]
         IN  [found |-> TRUE,
              df |-> [df EXCEPT ![idx] =
                         stage_after_response(row, email_type, response_type)]]

\* Mutant: a notification whose id is already stored is not stored again
_create_notification_dedup(ndf, club_name, email_type, notification_type, message, t) ==
    IF \E i \in 1..Len(ndf) :
           ndf[i].notification_id = <<club_name, email_type, notification_type, t>>
    THEN ndf
    ELSE Append(ndf,
                [notification_id |-> <<club_name, email_type, notification_type, t>>,
                 club_name |-> club_name,
                 email_type |-> email_type,
                 notification_type |-> notification_type,
                 message |-> message,
                 is_read |-> FALSE,
                 created_at |-> t,
                 read_at |-> NaT])

\* The file _create_notification writes; the id carries the clock reading
_create_notification(ndf, club_name, email_type, notification_type, message, t) ==
    Append(ndf,
           [notification_id |-> <<club_name, email_type, notification_type, t>>,
            club_name |-> club_name,
            email_type |-> email_type,
            notification_type |-> notification_type,
            message |-> message,
            is_read |-> FALSE,
            created_at |-> t,
            read_at |-> NaT])

update_email_sent(club_name, email_type, notes) ==
    /\ calls + ticks + response_calls < MaxEvents
    /\ calls' = calls + 1
    /\ status_df' = update_email_sent_df(status_df, club_name, email_type, notes, now)
    /\ notifications_df' =
           _create_notification(notifications_df, club_name, email_type, "email_sent",
                                <<email_type, "email sent to", club_name>>, now)
    /\ status_ret' = [op |-> "update_email_sent", club_name |-> club_name,
                      email_type |-> email_type, response_type |-> NoValue,
                      at |-> now, result |-> TRUE]
    /\ UNCHANGED <<now, ticks, research_vars, parse_vars, cost_vars, email_vars,
                   response_vars, race_vars>>

record_response(club_name, email_type, response_type, notes) ==
    LET r == record_response_df(status_df, club_name, email_type, response_type,
                                notes, now)
    IN  /\ calls + ticks + response_calls < MaxEvents
        /\ calls' = calls + 1
        /\ status_df' = r.df
        /\ notifications_df' =
               IF r.found
               THEN _create_notification(notifications_df, club_name, email_type,
                                         "response_received",
                                         <<"New", response_type, "response from", club_name>>,
                                         now)
               ELSE notifications_df
        /\ status_ret' = [op |-> "record_response", club_name |-> club_name,
                          email_type |-> email_type, response_type |-> response_type,
                          at |-> now, result |-> r.found]
        /\ UNCHANGED <<now, ticks, research_vars, parse_vars, cost_vars, email_vars,
                   response_vars, race_vars>>

\* A day passes between two status-manager calls
Wait ==
    /\ calls + ticks + response_calls < MaxEvents
    /\ now' = now + 1
    /\ ticks' = ticks + 1
    /\ UNCHANGED <<research_vars, status_vars, parse_vars, cost_vars, email_vars,
                   response_vars, race_vars>>

NextStatus ==
    \/ \E c \in Clubs, e \in EmailTypes, n \in Notes : update_email_sent(c, e, n)
    \/ \E c \in Clubs, e \in EmailTypes, r \in ResponseTypes, n \in Notes :
           record_response(c, e, r, n)
    \/ Wait

SpecStatus == Init /\ [][NextStatus]_vars

(***************************************************************************)
(* The notification queue of ClubStatusManager                             *)
(***************************************************************************)
\* df[df['is_read'] == False], as the set of row numbers
unread_idx(ndf) == {i \in 1..Len(ndf) : ndf[i].is_read = FALSE}

\* sort_values('created_at', ascending=False): every order of the rows S in
\* which created_at never increases; rows of equal created_at come in any order
RECURSIVE sorted_desc(_, _)
sorted_desc(ndf, S) ==
    IF S = {} THEN {<<>>}
    ELSE UNION {{<<ndf[i]>> \o rest : rest \in sorted_desc(ndf, S \ {i})} :
                i \in {j \in S : \A k \in S : ndf[k].created_at <= ndf[j].created_at}}

\* Mutant: the read notifications are returned as well
get_unread_notifications_results_all(ndf) == sorted_desc(ndf, 1..Len(ndf))

\* The lists get_unread_notifications may return
get_unread_notifications_results(ndf) == sorted_desc(ndf, unread_idx(ndf))

\* Mutant: marking flips the flag instead of setting it
mark_notification_read_df_toggles(ndf, notification_id, t) ==
    LET notification_idx == {i \in 1..Len(ndf) : ndf[i].notification_id = notification_id}
    IN  IF notification_idx # {}
        THEN [result |-> TRUE,
              ndf |-> [ndf EXCEPT ![Min(notification_idx)] =
                          [@ EXCEPT !.is_read = ~@, !.read_at = t]]]
        ELSE [result |-> FALSE, ndf |-> ndf]

\* Lines 239-249 of mark_notification_read: the return value and the file
mark_notification_read_df(ndf, notification_id, t) ==
    LET notification_idx == {i \in 1..Len(ndf) : ndf[i].notification_id = notification_id}
    IN  IF notification_idx # {}
        THEN [result |-> TRUE,
              ndf |-> [ndf EXCEPT ![Min(notification_idx)] =
                          [@ EXCEPT !.is_read = TRUE, !.read_at = t]]]
        ELSE [result |-> FALSE, ndf |-> ndf]

\* The ids callers pass: those of the stored notifications, and one that is
\* not stored
unknown_id == <<"NoClub", "introduction", "email_sent", 0>>

NotificationIds(ndf) == {ndf[i].notification_id : i \in 1..Len(ndf)} \cup {unknown_id}

get_unread_notifications ==
    /\ calls + ticks + response_calls < MaxEvents
    /\ calls' = calls + 1
    /\ \E unread \in get_unread_notifications_results(notifications_df) :
           status_ret' = [op |-> "get_unread_notifications", at |-> now,
                          result |-> unread]
    /\ UNCHANGED <<now, ticks, status_df, notifications_df, research_vars,
                 parse_vars, cost_vars, email_vars, response_vars, race_vars>>

mark_notification_read(notification_id) ==
    LET r == mark_notification_read_df(notifications_df, notification_id, now)
    IN  /\ calls + ticks + response_calls < MaxEvents
        /\ calls' = calls + 1
        /\ notifications_df' = r.ndf
        /\ status_ret' = [op |-> "mark_notification_read",
                          notification_id |-> notification_id,
                          at |-> now, result |-> r.result]
        /\ UNCHANGED <<now, ticks, status_df, research_vars, parse_vars, cost_vars, email_vars,
                   response_vars, race_vars>>

NextNotifications ==
    \/ \E c \in Clubs, e \in EmailTypes, n \in Notes : update_email_sent(c, e, n)
    \/ \E c \in Clubs, e \in EmailTypes, r \in ResponseTypes, n \in Notes :
           record_response(c, e, r, n)
    \/ get_unread_notifications
    \/ \E id \in NotificationIds(notifications_df) : mark_notification_read(id)
    \/ Wait

SpecNotifications == Init /\ [][NextNotifications]_vars

(***************************************************************************)
(* ClubStatusManager.get_clubs_needing_follow_up                           *)
(***************************************************************************)
\* The stages in the order the loop visits them
StageOrder == <<"introduction", "checkup", "acceptance">>

\* Mutant: a stage sent exactly at the cutoff is returned as well
needs_follow_up_inclusive(club, email_type, cutoff_date) ==
    /\ club.sent_date[email_type] # NaT
    /\ club.status[email_type] = EMAIL_SENT
    /\ club.sent_date[email_type] <= cutoff_date

\* Lines 317-319: the test a stage of a row has to pass
needs_follow_up(club, email_type, cutoff_date) ==
    /\ club.sent_date[email_type] # NaT
    /\ club.status[email_type] = EMAIL_SENT
    /\ club.sent_date[email_type] < cutoff_date

\* The inner loop: the entries of one row, from stage number k on
RECURSIVE follow_up_of_club(_, _, _, _)
follow_up_of_club(club, k, cutoff_date, t) ==
    IF k > Len(StageOrder) THEN <<>>
    ELSE (IF needs_follow_up(club, StageOrder[k], cutoff_date)
          THEN <<[club_name |-> club.club_name,
                  email_type |-> StageOrder[k],
                  sent_date |-> club.sent_date[StageOrder[k]],
                  days_since_sent |-> t - club.sent_date[StageOrder[k]]]>>
          ELSE <<>>)
         \o follow_up_of_club(club, k + 1, cutoff_date, t)

\* The outer loop over the rows of the status file
RECURSIVE follow_up_needed(_, _, _)
follow_up_needed(df, cutoff_date, t) ==
    IF df = <<>> THEN <<>>
    ELSE follow_up_of_club(Head(df), 1, cutoff_date, t)
         \o follow_up_needed(Tail(df), cutoff_date, t)

\* The values of days_since_sent callers pass: the test's 0 and the default 7
FollowUpDays == {0, 7}

get_clubs_needing_follow_up(days_since_sent) ==
    /\ status_ret' = [op |-> "get_clubs_needing_follow_up",
                      days_since_sent |-> days_since_sent, at |-> now,
                      result |-> follow_up_needed(status_df, now - days_since_sent, now)]
    /\ UNCHANGED <<now, ticks, status_df, notifications_df, calls, research_vars,
                   parse_vars, cost_vars, email_vars, response_vars, race_vars>>

\* Some days pass between two status-manager calls
FollowUpSteps == {2, 8}

Pass(d) ==
    /\ calls + ticks + response_calls < MaxEvents
    /\ now' = now + d
    /\ ticks' = ticks + 1
    /\ UNCHANGED <<research_vars, status_vars, parse_vars, cost_vars, email_vars,
                   response_vars, race_vars>>

\* The responses recorded between the queries
FollowUpResponses == {POSITIVE_RESPONSE}

NextFollowUp ==
    \/ \E c \in Clubs, e \in EmailTypes, n \in Notes : update_email_sent(c, e, n)
    \/ \E c \in Clubs, e \in EmailTypes, r \in FollowUpResponses, n \in Notes :
           record_response(c, e, r, n)
    \/ \E d \in FollowUpDays : get_clubs_needing_follow_up(d)
    \/ \E d \in FollowUpSteps : Pass(d)

SpecFollowUp == Init /\ [][NextFollowUp]_vars

(***************************************************************************)
(* ResponseManager.save_response, which stores a response and reports it   *)
(* to the status manager                                                   *)
(***************************************************************************)
Contacts == {"ann@club.org", "bob@club.org"}

\* What the Brevo conversation service does when the response is passed on:
\* it is not available, it stores the reply, or add_reply raises
BrevoOutcomes == {"unavailable", "replied", "raised"}

\* Mutant: the stored responses are not looked at
existing_responses_none(df, club_name, email_type, contact_email) == <<>>

\* responses_df[(club_name == ...) & (email_type == ...) & (contact_email == ...)]
existing_responses(df, club_name, email_type, contact_email) ==
    SelectSeq(df, LAMBDA r : /\ r.club_name = club_name
                             /\ r.email_type = email_type
                             /\ r.contact_email = contact_email)

\* Lines 90-105 of save_response: the response file with the new row
append_response(df, club_name, contact_email, email_type, response_type, t) ==
    Append(df,
           [response_id |-> <<club_name, email_type, t>>,
            club_name |-> club_name,
            contact_email |-> contact_email,
            email_type |-> email_type,
            response_type |-> response_type,
            response_date |-> t,
            processed |-> FALSE,
            created_at |-> t])

save_response(club_name, contact_email, email_type, response_type, brevo) ==
    LET existing == existing_responses(responses_df, club_name, email_type,
                                       contact_email)
        r == record_response_df(status_df, club_name, email_type, response_type,
                                "Response: note...", now)
    IN  /\ calls + ticks + response_calls < MaxEvents
        /\ response_calls' = response_calls + 1
        /\ IF existing # <<>>
           THEN /\ response_ret' = [op |-> "save_response", club_name |-> club_name,
                                    contact_email |-> contact_email,
                                    email_type |-> email_type,
                                    response_type |-> response_type,
                                    at |-> now, result |-> FALSE]
                /\ UNCHANGED <<responses_df, status_vars>>
           ELSE /\ responses_df' = append_response(responses_df, club_name,
                                                   contact_email, email_type,
                                                   response_type, now)
                /\ calls' = calls + 1
                /\ status_df' = r.df
                /\ notifications_df' =
                       IF r.found
                       THEN _create_notification(notifications_df, club_name,
                                                 email_type, "response_received",
                                                 <<"New", response_type,
                                                   "response from", club_name>>,
                                                 now)
                       ELSE notifications_df
                /\ status_ret' = [op |-> "record_response", club_name |-> club_name,
                                  email_type |-> email_type,
                                  response_type |-> response_type,
                                  at |-> now, result |-> r.found]
                /\ response_ret' = [op |-> "save_response", club_name |-> club_name,
                                    contact_email |-> contact_email,
                                    email_type |-> email_type,
                                    response_type |-> response_type,
                                    at |-> now, result |-> brevo # "raised"]
        /\ UNCHANGED <<now, ticks, research_vars, parse_vars, cost_vars, email_vars,
                   race_vars>>

NextResponses ==
    \/ \E c \in Clubs, e \in EmailTypes, n \in Notes : update_email_sent(c, e, n)
    \/ \E c \in Clubs, k \in Contacts, e \in EmailTypes, r \in ResponseTypes,
          b \in BrevoOutcomes : save_response(c, k, e, r, b)
    \/ Wait

SpecResponses == Init /\ [][NextResponses]_vars

(***************************************************************************)
(* _parse_research_sections on its own: the text is any stripped text of   *)
(* at most MaxLen tokens (research_club_with_o3 strips the generator's     *)
(* answer before it parses it).  str.find, slicing, str.strip and          *)
(* str.replace do not raise on a str, so the except block of the function  *)
(* is never entered.                                                       *)
(***************************************************************************)
Texts ==
    {t \in UNION {[1..n -> Tokens] : n \in 0..MaxLen} : strip(t) = t}

InitParse ==
    /\ now = 0
    /\ ticks = 0
    /\ research_df = <<>>
    /\ research_log = [c \in Clubs |-> <<>>]
    /\ research_ret = None
    /\ status_df = <<>>
    /\ notifications_df = <<>>
    /\ status_ret = None
    /\ calls = 0
    /\ full_research \in Texts
    /\ parsed = None
    /\ cost_call = None
    /\ cost_ret = None
    /\ tracking_df = <<>>
    /\ email_ret = None
    /\ email_calls = 0
    /\ charged = 0
    /\ responses_df = <<>>
    /\ response_ret = None
    /\ response_calls = 0
    /\ writers = [p \in Procs |-> [pc |-> "idle"]]
    /\ researchers = [p \in Procs |-> [pc |-> "idle", done |-> 0]]

Parse ==
    /\ parsed = None
    /\ parsed' = _parse_research_sections(full_research)
    /\ UNCHANGED <<now, ticks, research_vars, status_vars, full_research,
                 cost_vars, email_vars, response_vars, race_vars>>

NextParse == Parse

SpecParse == InitParse /\ [][NextParse]_vars

(***************************************************************************)
(* CostTracker.calculate_token_cost on its own: the model is one of the    *)
(* pricing table or one that is missing from it, and each token count is   *)
(* any number up to MaxTokens.                                             *)
(***************************************************************************)
CostModels == DOMAIN PRICING \cup {"unpriced-model"}

InitCost ==
    /\ now = 0
    /\ ticks = 0
    /\ research_df = <<>>
    /\ research_log = [c \in Clubs |-> <<>>]
    /\ research_ret = None
    /\ status_df = <<>>
    /\ notifications_df = <<>>
    /\ status_ret = None
    /\ calls = 0
    /\ full_research = <<>>
    /\ parsed = None
    /\ cost_call \in [model : CostModels,
                      input_tokens : 0..MaxTokens,
                      output_tokens : 0..MaxTokens,
                      cached_tokens : 0..MaxTokens]
    /\ cost_ret = None
    /\ tracking_df = <<>>
    /\ email_ret = None
    /\ email_calls = 0
    /\ charged = 0
    /\ responses_df = <<>>
    /\ response_ret = None
    /\ response_calls = 0
    /\ writers = [p \in Procs |-> [pc |-> "idle"]]
    /\ researchers = [p \in Procs |-> [pc |-> "idle", done |-> 0]]

Calculate ==
    /\ cost_ret = None
    /\ cost_ret' = [raised |-> FALSE,
                    total_cost |-> calculate_token_cost(cost_call.model,
                                                        cost_call.input_tokens,
                                                        cost_call.output_tokens,
                                                        cost_call.cached_tokens)]
    /\ UNCHANGED <<now, ticks, research_vars, status_vars, parse_vars, cost_call,
                   email_vars, response_vars, race_vars>>

NextCost == Calculate

SpecCost == InitCost /\ [][NextCost]_vars

(***************************************************************************)
(* EmailPersonalizer: generation of an email for (club, stage), with the   *)
(* research it triggers, and the tracking file of the generated emails.    *)
(* `charged` adds up what the CostTracker of every call has counted: it is *)
(* the money the operations have cost so far.                              *)
(***************************************************************************)
add_content_cost(costs, input_tokens, output_tokens, cached_tokens) ==
    LET cost == calculate_token_cost(CONTENT_MODEL, input_tokens, output_tokens,
                                     cached_tokens)
    IN  [costs EXCEPT !.content_cost = @ + cost, !.total_cost = @ + cost]

\* The column of the research file that holds the research of a stage
research_column(email_type) ==
    IF email_type = "checkup" THEN "checkup_research"
    ELSE IF email_type = "acceptance" THEN "acceptance_research"
    ELSE "introduction_research"

\* EmailPersonalizer.get_club_research: None when the club has no row or the
\* row has expired, else the text of the field in a record; an empty field is
\* read back as NaN, which is truthy
get_club_research(df, club_name, email_type, t) ==
    LET club_research == club_research_rows(df, club_name)
    IN  IF club_research # <<>>
        THEN IF t > club_research[1].expires_at
             THEN None
             ELSE [text |-> read_csv_text(club_research[1][research_column(email_type)])]
        ELSE None

\* The content generator: it fails, or it answers, maybe with a usage report
ContentOutcomes ==
    {[ok |-> FALSE],
     [ok |-> TRUE, usage |-> None],
     [ok |-> TRUE, usage |-> [prompt_tokens |-> 800, completion_tokens |-> 100,
                              prompt_tokens_cached |-> 0]]}

\* The research generator as the email generation meets it
ResearchOutcomes ==
    {o \in GeneratorOutcomes : o.ok => o.content[1] = INTRO_MARKER /\ o.usage # None}

\* generate_personalized_content: the text and the costs of its CostTracker
generate_personalized_content(club_name, club_research, email_type, outcome) ==
    IF outcome.ok
    THEN [personalized_content |-> "personalized",
          costs |-> IF outcome.usage # None
                    THEN add_content_cost(CostTracker,
                                          outcome.usage.prompt_tokens,
                                          outcome.usage.completion_tokens,
                                          outcome.usage.prompt_tokens_cached)
                    ELSE CostTracker]
    ELSE [personalized_content |-> "fallback", costs |-> CostTracker]

\* What a research_club_with_o3 call made now for the club adds to the
\* CostTrackers: nothing on a cache hit, the costs it returns on a miss
research_charge(df, club_name, t, costs) ==
    IF get_cached_research(df, club_name, t).result # None THEN 0 ELSE costs.total_cost

\* Mutant: the filter keeps every row
drop_email_rows_keeps_all(df, club_name, email_type) == df

\* tracking_df[~((club_name == club_name) & (email_type == email_type))]
drop_email_rows(df, club_name, email_type) ==
    SelectSeq(df, LAMBDA r : ~(r.club_name = club_name /\ r.email_type = email_type))

\* The tracking file save_generated_email writes
save_generated_email_df(df, club_name, personalized_content, generated_email, costs, email_type, mark_as_sent, t) ==
    Append(drop_email_rows(df, club_name, email_type),
           [club_name |-> club_name,
            email_type |-> email_type,
            email_sent_date |-> IF mark_as_sent THEN t ELSE NaT,
            personalized_content |-> personalized_content,
            generated_email |-> generated_email,
            content_cost |-> costs.content_cost,
            total_cost |-> costs.total_cost,
            created_at |-> t])

\* research_club_with_o3 called on its own (research_cli)
ResearchCall(club_name, outcome) ==
    /\ email_calls + ticks < MaxEmailEvents
    /\ email_calls' = email_calls + 1
    /\ research_club_with_o3(club_name, outcome)
    /\ charged' = charged + research_charge(research_df, club_name, now,
                                            research_ret'.costs)
    /\ email_ret' = [op |-> "research_club_with_o3", club_name |-> club_name]
    /\ UNCHANGED <<now, ticks, status_vars, parse_vars, cost_vars, tracking_df,
                   response_vars, race_vars>>

generate_personalized_email(club_name, email_type, research_outcome, content_outcome) ==
    LET club_research == get_club_research(research_df, club_name, email_type, now)
        auto_researched == club_research = None
        content == generate_personalized_content(club_name, club_research,
                                                 email_type, content_outcome)
    IN  /\ email_calls + ticks < MaxEmailEvents
        /\ email_calls' = email_calls + 1
        /\ IF auto_researched
           THEN research_club_with_o3(club_name, research_outcome)
           ELSE UNCHANGED research_vars
        /\ LET research_total == IF auto_researched
                                 THEN research_ret'.costs.total_cost ELSE 0
               research_charged == IF auto_researched
                                   THEN research_charge(research_df, club_name, now,
                                                        research_ret'.costs)
                                   ELSE 0
               failed == get_club_research(research_df', club_name, email_type,
                                           now) = None
           IN  IF failed
               THEN /\ email_ret' = [op |-> "generate_personalized_email",
                                     club_name |-> club_name,
                                     email_type |-> email_type,
                                     raised |-> TRUE]
                    /\ charged' = charged + research_charged
               ELSE /\ email_ret' =
                           [op |-> "generate_personalized_email",
                            club_name |-> club_name,
                            email_type |-> email_type,
                            raised |-> FALSE,
                            personalized_content |-> content.personalized_content,
                            costs |-> [total_cost |-> research_total
                                                      + content.costs.total_cost,
                                       content_cost |-> content.costs.total_cost,
                                       search_cost |-> research_total]]
                    /\ charged' = charged + research_charged + content.costs.total_cost
        /\ UNCHANGED <<now, ticks, status_vars, parse_vars, cost_vars, tracking_df,
                   response_vars, race_vars>>

\* The caller saves the email it has just generated, with the costs that
\* generate_personalized_email returned
save_generated_email(mark_as_sent) ==
    /\ email_ret # None
    /\ email_ret.op = "generate_personalized_email"
    /\ ~email_ret.raised
    /\ email_calls + ticks < MaxEmailEvents
    /\ email_calls' = email_calls + 1
    /\ tracking_df' = save_generated_email_df(tracking_df, email_ret.club_name,
                                              email_ret.personalized_content,
                                              "generated", email_ret.costs,
                                              email_ret.email_type, mark_as_sent, now)
    /\ email_ret' = [op |-> "save_generated_email",
                     club_name |-> email_ret.club_name,
                     email_type |-> email_ret.email_type]
    /\ UNCHANGED <<now, ticks, research_vars, status_vars, parse_vars, cost_vars,
                   charged, response_vars, race_vars>>

\* Time passes between two calls: a day, or more than the cache keeps a record
EmailTickSteps == {1, cache_expiry_days + 1}

Elapse(d) ==
    /\ email_calls + ticks < MaxEmailEvents
    /\ now' = now + d
    /\ ticks' = ticks + 1
    /\ UNCHANGED <<research_vars, status_vars, parse_vars, cost_vars, email_vars,
                   response_vars, race_vars>>

NextEmail ==
    \/ \E c \in Clubs, o \in ResearchOutcomes : ResearchCall(c, o)
    \/ \E c \in Clubs, e \in EmailTypes, ro \in ResearchOutcomes, co \in ContentOutcomes :
           generate_personalized_email(c, e, ro, co)
    \/ \E m \in BOOLEAN : save_generated_email(m)
    \/ \E d \in EmailTickSteps : Elapse(d)

SpecEmail == Init /\ [][NextEmail]_vars

(***************************************************************************)
(* The tracking file of EmailPersonalizer on its own: the four operations  *)
(* that write it, called with any club and stage.                          *)
(***************************************************************************)
\* The rows of the tracking file for (club, stage), as row numbers
email_idx(df, club_name, email_type) ==
    {i \in 1..Len(df) : df[i].club_name = club_name /\ df[i].email_type = email_type}

\* tracking_df.loc[mask, 'email_sent_date'] = datetime.now()
mark_email_as_sent_df(df, club_name, email_type, t) ==
    [i \in 1..Len(df) |->
        IF i \in email_idx(df, club_name, email_type)
        THEN [df[i] EXCEPT !.email_sent_date = t]
        ELSE df[i]]

\* tracking_df.loc[mask, 'generated_email'] = modified_email, and created_at
save_email_modification_df(df, club_name, modified_email, email_type, t) ==
    [i \in 1..Len(df) |->
        IF i \in email_idx(df, club_name, email_type)
        THEN [df[i] EXCEPT !.generated_email = modified_email, !.created_at = t]
        ELSE df[i]]

\* The cost dicts callers hand to save_generated_email
SavedCosts ==
    {[total_cost |-> 0, content_cost |-> 0, search_cost |-> 0],
     [total_cost |-> 120000, content_cost |-> 120000, search_cost |-> 0]}

\* save_generated_email called with any arguments
SaveEmail(club_name, email_type, costs, mark_as_sent) ==
    /\ email_calls + ticks < MaxTrackingEvents
    /\ email_calls' = email_calls + 1
    /\ tracking_df' = save_generated_email_df(tracking_df, club_name, "personalized",
                                              "generated", costs, email_type,
                                              mark_as_sent, now)
    /\ email_ret' = [op |-> "save_generated_email", club_name |-> club_name,
                     email_type |-> email_type, at |-> now, result |-> None]
    /\ UNCHANGED <<now, ticks, research_vars, status_vars, parse_vars, cost_vars,
                   charged, response_vars, race_vars>>

mark_email_as_sent(club_name, email_type) ==
    /\ email_calls + ticks < MaxTrackingEvents
    /\ email_calls' = email_calls + 1
    /\ tracking_df' = mark_email_as_sent_df(tracking_df, club_name, email_type, now)
    /\ email_ret' = [op |-> "mark_email_as_sent", club_name |-> club_name,
                     email_type |-> email_type, at |-> now, result |-> None]
    /\ UNCHANGED <<now, ticks, research_vars, status_vars, parse_vars, cost_vars,
                   charged, response_vars, race_vars>>

save_email_modification(club_name, email_type) ==
    /\ email_calls + ticks < MaxTrackingEvents
    /\ email_calls' = email_calls + 1
    /\ tracking_df' = save_email_modification_df(tracking_df, club_name, "modified",
                                                 email_type, now)
    /\ email_ret' = [op |-> "save_email_modification", club_name |-> club_name,
                     email_type |-> email_type, at |-> now, result |-> TRUE]
    /\ UNCHANGED <<now, ticks, research_vars, status_vars, parse_vars, cost_vars,
                   charged, response_vars, race_vars>>

delete_email_record(club_name, email_type) ==
    /\ email_calls + ticks < MaxTrackingEvents
    /\ email_calls' = email_calls + 1
    /\ tracking_df' = drop_email_rows(tracking_df, club_name, email_type)
    /\ email_ret' = [op |-> "delete_email_record", club_name |-> club_name,
                     email_type |-> email_type, at |-> now,
                     result |-> Len(tracking_df') < Len(tracking_df)]
    /\ UNCHANGED <<now, ticks, research_vars, status_vars, parse_vars, cost_vars,
                   charged, response_vars, race_vars>>

\* A day passes between two calls
TrackingWait ==
    /\ email_calls + ticks < MaxTrackingEvents
    /\ now' = now + 1
    /\ ticks' = ticks + 1
    /\ UNCHANGED <<research_vars, status_vars, parse_vars, cost_vars, email_vars,
                   response_vars, race_vars>>

NextTracking ==
    \/ \E c \in Clubs, e \in EmailTypes, k \in SavedCosts, m \in BOOLEAN :
           SaveEmail(c, e, k, m)
    \/ \E c \in Clubs, e \in EmailTypes : mark_email_as_sent(c, e)
    \/ \E c \in Clubs, e \in EmailTypes : save_email_modification(c, e)
    \/ \E c \in Clubs, e \in EmailTypes : delete_email_record(c, e)
    \/ TrackingWait

SpecTracking == Init /\ [][NextTracking]_vars

(***************************************************************************)
(* Claims about the research cache, checked under SpecResearch             *)
(***************************************************************************)
\* The last call made for the club, and the one before it
LastCall(c) == research_log[c][Len(research_log[c])]
PrevCall(c) == research_log[c][1]
TwoCalls(c) == Len(research_log[c]) = 2

\* The club whose call came last of all
JustCalled(c) ==
    /\ research_ret # None
    /\ research_ret.club_name = c
    /\ research_log[c] # <<>>

C2_OneResearchRecordPerClub ==
    /\ \A c \in Clubs : Len(club_research_rows(research_df, c)) <= 1
    /\ \A c \in Clubs :
        (JustCalled(c) /\ ~LastCall(c).from_cache) =>
            LET rows == club_research_rows(research_df, c)
            IN  /\ Len(rows) = 1
                /\ rows[1].introduction_research = research_ret.sections.introduction_research
                /\ rows[1].checkup_research = research_ret.sections.checkup_research
                /\ rows[1].acceptance_research = research_ret.sections.acceptance_research
                /\ rows[1].full_research_data = research_ret.sections.full_research_data
                /\ rows[1].total_cost = research_ret.costs.total_cost
                /\ rows[1].researched_at = LastCall(c).at
                /\ rows[1].expires_at = LastCall(c).at + cache_expiry_days

\* A club researched a second time after its first record had expired
C2_Witness ==
    \E c \in Clubs :
        /\ TwoCalls(c)
        /\ ~PrevCall(c).from_cache
        /\ ~LastCall(c).from_cache
        /\ LastCall(c).prior_expires_at # NaT
        /\ Len(club_research_rows(research_df, c)) = 1
        /\ Len(research_df) = 2

\* The call found a record of the club whose expires_at had passed
Stale(call) == call.prior_expires_at # NaT /\ call.prior_expires_at <= call.at

\* C3: a call made when the stored record's expires_at has passed evicts that
\* record, invokes the generator exactly once, and leaves a record whose
\* expires_at is the time of the new research plus 30 days.
C3_ExpiredRecordIsResearchedAgain ==
    \A c \in Clubs :
        (research_log[c] # <<>> /\ Stale(LastCall(c))) =>
            /\ ~LastCall(c).from_cache
            /\ LastCall(c).generator_calls = 1
            /\ LastCall(c).expires_at = LastCall(c).at + cache_expiry_days
            /\ (JustCalled(c) =>
                    LET rows == club_research_rows(research_df, c)
                    IN  /\ Len(rows) = 1
                        /\ rows[1].researched_at = LastCall(c).at
                        /\ rows[1].expires_at = LastCall(c).at + cache_expiry_days)

\* The call comes exactly at the old record's expires_at
C3_Witness ==
    \E c \in Clubs :
        /\ JustCalled(c)
        /\ LastCall(c).prior_expires_at = LastCall(c).at
        /\ LastCall(c).generator_calls = 1

\* C4: a call served from a non-expired stored record reports zero cost.
C4_CacheHitReportsZeroCost ==
    \A c \in Clubs :
        (JustCalled(c) /\ LastCall(c).from_cache) =>
            /\ research_ret.costs.total_cost = 0
            /\ research_ret.costs.search_cost = 0
            /\ research_ret.costs.web_search_cost = 0

\* C5: when the generator fails the call does not raise; it stores a fallback
\* record whose three sections are non-empty and whose expires_at is the
\* research time plus 30 days, and it returns those sections.
C5_GeneratorFailureStoresFallback ==
    \A c \in Clubs :
        (JustCalled(c) /\ LastCall(c).generator = "failed") =>
            LET rows == club_research_rows(research_df, c)
            IN  /\ ~research_ret.raised
                /\ Len(rows) = 1
                /\ rows[1].introduction_research # <<>>
                /\ rows[1].checkup_research # <<>>
                /\ rows[1].acceptance_research # <<>>
                /\ rows[1].researched_at = LastCall(c).at
                /\ rows[1].expires_at = LastCall(c).at + cache_expiry_days
                /\ research_ret.sections.introduction_research = rows[1].introduction_research
                /\ research_ret.sections.checkup_research = rows[1].checkup_research
                /\ research_ret.sections.acceptance_research = rows[1].acceptance_research

\* The generator failed on the research that replaces an expired record
C5_Witness ==
    \E c \in Clubs :
        /\ JustCalled(c)
        /\ LastCall(c).generator = "failed"
        /\ Stale(LastCall(c))
        /\ ~research_ret.raised

(***************************************************************************)
(* Claim about _parse_research_sections, checked under SpecParse           *)
(***************************************************************************)
MarkersMissing(text) ==
    /\ find(text, INTRO_MARKER) = -1
    /\ find(text, CHECKUP_MARKER) = -1
    /\ find(text, ACCEPTANCE_MARKER) = -1

\* C6: for a non-empty raw text without the section markers, all three stage
\* sections are the raw text; none is left empty.
C6_MissingMarkersFallBackToRawText ==
    (parsed # None /\ full_research # <<>> /\ MarkersMissing(full_research)) =>
        /\ parsed.introduction_research = full_research
        /\ parsed.checkup_research = full_research
        /\ parsed.acceptance_research = full_research

(***************************************************************************)
(* Claims about the status tracker, checked under SpecStatus               *)
(***************************************************************************)
\* The club's StatusRecord in a status file that has one
StatusRow(df, c) == df[Min(club_idx(df, c))]
HasRecord(df, c) == club_idx(df, c) # {}

\* This step is a call of the named operation
Called(op) == calls' = calls + 1 /\ status_ret'.op = op

\* What one step has to satisfy for C7
C7_Step ==
    Called("update_email_sent") =>
        LET c == status_ret'.club_name
            e == status_ret'.email_type
            n == Len(notifications_df)
        IN  /\ status_ret'.result = TRUE
            /\ HasRecord(status_df', c)
            /\ Cardinality(club_idx(status_df', c)) = 1
            /\ StatusRow(status_df', c).status[e] = EMAIL_SENT
            /\ StatusRow(status_df', c).sent_date[e] = now
            /\ StatusRow(status_df', c).last_activity_date = now
            /\ Len(notifications_df') = n + 1
            /\ SubSeq(notifications_df', 1, n) = notifications_df
            /\ notifications_df'[n + 1].club_name = c
            /\ notifications_df'[n + 1].email_type = e
            /\ notifications_df'[n + 1].notification_type = "email_sent"

\* C7: update_email_sent(club, stage), from any state, leaves a StatusRecord
\* for the club (creating it if absent) with the stage's status email_sent,
\* its sent date stamped and last_activity updated, returns True, and appends
\* one email_sent notification for (club, stage).
C7_EmailSentIsRecorded == [][C7_Step]_vars

\* A first send that created the record, and a later send to the same stage
\* that stamped it again
C7_Witness ==
    /\ status_ret # None
    /\ status_ret.op = "update_email_sent"
    /\ calls = 2
    /\ Len(status_df) = 1
    /\ Len(notifications_df) = 2
    /\ notifications_df[1].email_type = status_ret.email_type
    /\ StatusRow(status_df, status_ret.club_name).created_at = 0
    /\ StatusRow(status_df, status_ret.club_name).sent_date[status_ret.email_type] = 1

\* What one step has to satisfy for C8
C8_Step ==
    (Called("record_response") /\ ~HasRecord(status_df, status_ret'.club_name)) =>
        /\ status_ret'.result = FALSE
        /\ status_df' = status_df
        /\ notifications_df' = notifications_df

\* C8: record_response for a club that has no StatusRecord returns False:
\* no record is created, the status file is unchanged and no notification
\* is emitted.
C8_ResponseForUnknownClubFails == [][C8_Step]_vars

\* A response for a club without a record, made when another club has one
C8_Witness ==
    /\ status_ret # None
    /\ status_ret.op = "record_response"
    /\ status_ret.result = FALSE
    /\ ~HasRecord(status_df, status_ret.club_name)
    /\ Len(status_df) = 1
    /\ Len(notifications_df) = 1

\* What one step has to satisfy for C9
C9_Step ==
    (/\ Called("record_response")
     /\ HasRecord(status_df, status_ret'.club_name)
     /\ StatusRow(status_df, status_ret'.club_name).sent_date[status_ret'.email_type] = NaT) =>
        /\ status_ret'.result = FALSE
        /\ status_df' = status_df

\* C9: record_response for a club that has a StatusRecord, on a stage that
\* was never sent, fails and leaves the record unchanged.
C9_ResponseForUnsentStageFails == [][C9_Step]_vars

\* The stage that follows e in the pipeline
NextStage(e) ==
    IF e = "introduction" THEN "checkup"
    ELSE IF e = "checkup" THEN "acceptance"
    ELSE "partnership_active"

\* C10: a positive response on an existing record sets the overall stage to
\* checkup after introduction, acceptance after checkup, partnership_active
\* after acceptance, and the priority to high.
C10_PositiveResponseAdvancesStage ==
    (/\ status_ret # None
     /\ status_ret.op = "record_response"
     /\ status_ret.result
     /\ status_ret.response_type = POSITIVE_RESPONSE) =>
        /\ HasRecord(status_df, status_ret.club_name)
        /\ StatusRow(status_df, status_ret.club_name).current_stage =
               NextStage(status_ret.email_type)
        /\ StatusRow(status_df, status_ret.club_name).priority_level = "high"

\* send(introduction), then a positive introduction response
C10_Witness ==
    /\ status_ret # None
    /\ status_ret.op = "record_response"
    /\ status_ret.email_type = "introduction"
    /\ status_ret.response_type = POSITIVE_RESPONSE
    /\ calls = 2
    /\ HasRecord(status_df, status_ret.club_name)
    /\ StatusRow(status_df, status_ret.club_name).status["introduction"] = POSITIVE_RESPONSE
    /\ StatusRow(status_df, status_ret.club_name).sent_date["introduction"] # NaT
    /\ StatusRow(status_df, status_ret.club_name).current_stage = "checkup"
    /\ StatusRow(status_df, status_ret.club_name).priority_level = "high"

\* C11: a negative response on an existing record, for any stage and from any
\* prior overall stage and priority, sets the overall stage to not_interested
\* and the priority to low.
C11_NegativeResponseClosesPipeline ==
    (/\ status_ret # None
     /\ status_ret.op = "record_response"
     /\ status_ret.result
     /\ status_ret.response_type = NEGATIVE_RESPONSE) =>
        /\ HasRecord(status_df, status_ret.club_name)
        /\ StatusRow(status_df, status_ret.club_name).current_stage = "not_interested"
        /\ StatusRow(status_df, status_ret.club_name).priority_level = "low"

\* A negative checkup response for a club whose introduction had a positive
\* response (overall stage checkup, priority high before the call)
C11_Witness ==
    /\ status_ret # None
    /\ status_ret.op = "record_response"
    /\ status_ret.email_type = "checkup"
    /\ status_ret.response_type = NEGATIVE_RESPONSE
    /\ status_ret.result
    /\ calls = 3
    /\ StatusRow(status_df, status_ret.club_name).status["introduction"] = POSITIVE_RESPONSE
    /\ StatusRow(status_df, status_ret.club_name).current_stage = "not_interested"
    /\ StatusRow(status_df, status_ret.club_name).priority_level = "low"

\* What one step has to satisfy for C12
C12_Step ==
    \A c \in Clubs :
        (HasRecord(status_df, c) /\ StatusRow(status_df, c).current_stage = "not_interested") =>
            /\ HasRecord(status_df', c)
            /\ StatusRow(status_df', c).current_stage = "not_interested"

\* C12: not_interested is terminal: once a club's overall stage is
\* not_interested, no later send or response changes it.
C12_NotInterestedIsTerminal == [][C12_Step]_vars

\* The order of the overall stages
StageRank(stage) ==
    IF stage = "introduction" THEN 1
    ELSE IF stage = "checkup" THEN 2
    ELSE IF stage = "acceptance" THEN 3
    ELSE IF stage = "partnership_active" THEN 4
    ELSE 0

\* What one step has to satisfy for C13
C13_Step ==
    (/\ Called("record_response")
     /\ status_ret'.response_type = POSITIVE_RESPONSE
     /\ HasRecord(status_df, status_ret'.club_name)
     /\ StageRank(StatusRow(status_df, status_ret'.club_name).current_stage) > 0) =>
        StageRank(StatusRow(status_df', status_ret'.club_name).current_stage) >=
            StageRank(StatusRow(status_df, status_ret'.club_name).current_stage)

\* C13: in the order introduction < checkup < acceptance < partnership_active,
\* no positive response leaves the overall stage earlier than it was.
C13_PositiveResponseNeverMovesBack == [][C13_Step]_vars

\* The sub-state of a stage; a club without a record was not contacted
SubState(df, c, e) == IF HasRecord(df, c) THEN StatusRow(df, c).status[e] ELSE NoValue

\* The moves of the per-stage machine NOT_CONTACTED -> SENT -> {POSITIVE, NEGATIVE}
AllowedMove(old, new) ==
    \/ new = old
    \/ old = NoValue /\ new = EMAIL_SENT
    \/ old = EMAIL_SENT /\ new \in {POSITIVE_RESPONSE, NEGATIVE_RESPONSE}

\* What one step has to satisfy for C14
C14_Step ==
    \A c \in Clubs, e \in EmailTypes :
        AllowedMove(SubState(status_df, c, e), SubState(status_df', c, e))

\* C14: a stage's sub-state changes only along NOT_CONTACTED -> SENT ->
\* {POSITIVE, NEGATIVE}; it never returns from a response to SENT and never
\* switches between POSITIVE and NEGATIVE.
C14_SubStateFollowsMachine == [][C14_Step]_vars

(***************************************************************************)
(* Claims about the notification queue, checked under SpecNotifications    *)
(***************************************************************************)
\* What one step has to satisfy for C15
C15_Step ==
    (\/ Called("update_email_sent")
     \/ Called("record_response") /\ status_ret'.result) =>
        LET n == Len(notifications_df)
        IN  /\ Len(notifications_df') = n + 1
            /\ SubSeq(notifications_df', 1, n) = notifications_df
            /\ notifications_df'[n + 1].is_read = FALSE
            /\ notifications_df'[n + 1].club_name = status_ret'.club_name
            /\ notifications_df'[n + 1].email_type = status_ret'.email_type
            /\ notifications_df'[n + 1].notification_type =
                   IF status_ret'.op = "update_email_sent"
                   THEN "email_sent" ELSE "response_received"

\* C15: every successful update_email_sent and every successful
\* record_response appends exactly one new notification with is_read = false
\* behind the stored ones, and nothing is deduplicated: each further send to
\* the same (club, stage) is stored as a further notification.
C15_EveryEventAppendsOneNotification == [][C15_Step]_vars

\* Two sends to the same (club, stage) at the same clock reading: two stored
\* email_sent notifications that carry the same id
C15_Witness ==
    /\ status_ret # None
    /\ status_ret.op = "update_email_sent"
    /\ calls = 2
    /\ ticks = 0
    /\ Len(notifications_df) = 2
    /\ notifications_df[1].notification_type = "email_sent"
    /\ notifications_df[2].notification_type = "email_sent"
    /\ notifications_df[1].notification_id = notifications_df[2].notification_id
    /\ notifications_df[2].is_read = FALSE

\* What one step has to satisfy for C16
C16_Step ==
    /\ Len(notifications_df') >= Len(notifications_df)
    /\ \A i \in 1..Len(notifications_df) :
           /\ notifications_df'[i].notification_id = notifications_df[i].notification_id
           /\ notifications_df'[i].club_name = notifications_df[i].club_name
           /\ notifications_df'[i].email_type = notifications_df[i].email_type
           /\ notifications_df'[i].notification_type = notifications_df[i].notification_type
           /\ notifications_df'[i].message = notifications_df[i].message
           /\ notifications_df'[i].created_at = notifications_df[i].created_at
           /\ notifications_df[i].is_read => notifications_df'[i].is_read

\* C16: the notification log is append-only: no operation removes a stored
\* notification or changes its club, stage, kind, message or created_at, and
\* is_read never goes back from true to false.
C16_NotificationLogIsAppendOnly == [][C16_Step]_vars

\* Four calls, the last a mark of the first notification, that leave it read
\* with an unread notification stored behind it
C16_Witness ==
    /\ status_ret # None
    /\ status_ret.op = "mark_notification_read"
    /\ status_ret.result
    /\ Len(notifications_df) = 2
    /\ status_ret.notification_id = notifications_df[1].notification_id
    /\ notifications_df[1].is_read
    /\ ~notifications_df[2].is_read
    /\ calls = 4

\* The number of times row occurs in the list rows at the positions S
Occurrences(rows, S, row) == Cardinality({i \in S : rows[i] = row})

\* What one step has to satisfy for C17
C17_Step ==
    /\ Called("get_unread_notifications") =>
           LET res == status_ret'.result
               unread == unread_idx(notifications_df)
           IN  /\ Len(res) = Cardinality(unread)
               /\ \A i \in unread :
                      Occurrences(res, 1..Len(res), notifications_df[i]) =
                          Occurrences(notifications_df, unread, notifications_df[i])
               /\ \A k \in 1..(Len(res) - 1) : res[k].created_at >= res[k + 1].created_at
               /\ notifications_df' = notifications_df
    /\ \A i \in unread_idx(notifications_df) \ unread_idx(notifications_df') :
           /\ Called("mark_notification_read")
           /\ notifications_df[i].notification_id = status_ret'.notification_id
           /\ unread_idx(notifications_df) \ unread_idx(notifications_df') = {i}

\* C17: get_unread_notifications returns exactly the stored notifications
\* whose is_read is false, most recent first; a notification leaves the unread
\* ones only by a mark_notification_read of its own id, and one mark removes
\* only one notification.
C17_UnreadQueue == [][C17_Step]_vars

\* A send, a day later a positive response, then the query: both
\* notifications are returned, the response first
C17_Witness ==
    /\ status_ret # None
    /\ status_ret.op = "get_unread_notifications"
    /\ calls = 3
    /\ Len(notifications_df) = 2
    /\ Len(status_ret.result) = 2
    /\ status_ret.result[1] = notifications_df[2]
    /\ status_ret.result[2] = notifications_df[1]
    /\ notifications_df[1].notification_type = "email_sent"
    /\ notifications_df[2].notification_type = "response_received"
    /\ notifications_df[2].message[2] = POSITIVE_RESPONSE
    /\ notifications_df[2].club_name = notifications_df[1].club_name
    /\ notifications_df[2].created_at > notifications_df[1].created_at

\* A query after one of two notifications was marked read returns the other
C17_WitnessAfterMark ==
    /\ status_ret # None
    /\ status_ret.op = "get_unread_notifications"
    /\ Len(notifications_df) = 2
    /\ notifications_df[1].is_read
    /\ status_ret.result = <<notifications_df[2]>>

\* The rows that carry the id
rows_with_id(ndf, id) == {i \in 1..Len(ndf) : ndf[i].notification_id = id}

\* What one step has to satisfy for C18
C18_Step ==
    (/\ Called("mark_notification_read")
     /\ \/ rows_with_id(notifications_df, status_ret'.notification_id) = {}
        \/ notifications_df[Min(rows_with_id(notifications_df,
                                             status_ret'.notification_id))].is_read) =>
        /\ notifications_df' = notifications_df
        /\ status_ret'.result \in BOOLEAN

\* C18: mark_notification_read(id) for a notification that is already read,
\* or for an id that is not stored, changes nothing in the notification store
\* (read_at included) and returns a boolean.
C18_MarkReadIsIdempotent == [][C18_Step]_vars

(***************************************************************************)
(* Claims about the costs                                                  *)
(***************************************************************************)
\* C19: calculate_token_cost(model, input, output, cached) equals
\* (input - cached) * rate_input + cached * rate_cached_input
\* + output * rate_output for every model of the pricing table and all
\* non-negative token counts; for a model missing from the table it returns
\* 0 and does not fail.
C19_CostIsLinearInTokens ==
    cost_ret # None =>
        /\ ~cost_ret.raised
        /\ cost_ret.total_cost =
               IF cost_call.model \in DOMAIN PRICING
               THEN (cost_call.input_tokens - cost_call.cached_tokens)
                        * PRICING[cost_call.model].input
                    + cost_call.cached_tokens * PRICING[cost_call.model].cached_input
                    + cost_call.output_tokens * PRICING[cost_call.model].output
               ELSE 0

\* C19, amended: the tokens charged at the input rate are
\* max(0, input - cached), so the cost is the claimed one when
\* cached <= input, and cached * rate_cached_input + output * rate_output
\* when cached > input; for a model missing from the table it is 0.
C19_CostClampsRegularInput ==
    cost_ret # None =>
        /\ ~cost_ret.raised
        /\ cost_ret.total_cost =
               IF cost_call.model \in DOMAIN PRICING
               THEN (IF cost_call.cached_tokens <= cost_call.input_tokens
                     THEN (cost_call.input_tokens - cost_call.cached_tokens)
                              * PRICING[cost_call.model].input
                     ELSE 0)
                    + cost_call.cached_tokens * PRICING[cost_call.model].cached_input
                    + cost_call.output_tokens * PRICING[cost_call.model].output
               ELSE 0

\* o3 with 1 input, 2 output and 3 cached tokens: 3 * 500 + 2 * 8000
C19_Witness ==
    /\ cost_ret # None
    /\ cost_call.model = "o3"
    /\ cost_call.input_tokens = 1
    /\ cost_call.output_tokens = 2
    /\ cost_call.cached_tokens = 3
    /\ cost_ret.total_cost = 17500

\* The sum of total_cost over the rows of a file
RECURSIVE sum_total_cost(_)
sum_total_cost(df) ==
    IF df = <<>> THEN 0 ELSE Head(df).total_cost + sum_total_cost(Tail(df))

\* A generated email is waiting for the caller to save it
SavePending ==
    /\ email_ret # None
    /\ email_ret.op = "generate_personalized_email"

\* C20: whenever no generated email is waiting to be saved, the grand total
\* of the costs charged by the research and content-generation operations
\* equals the sum of total_cost over the stored research rows and email rows:
\* no cost is counted twice or dropped.
C20_LedgerMatchesStoredCosts ==
    ~SavePending => charged = sum_total_cost(research_df) + sum_total_cost(tracking_df)

(***************************************************************************)
(* Claims about the email tracking file, checked under SpecTracking        *)
(***************************************************************************)
\* This step is a call of the named EmailPersonalizer operation
EmailCalled(op) == email_calls' = email_calls + 1 /\ email_ret'.op = op

\* The rows of a file outside (club, stage), in their order
other_email_rows(df, c, e) ==
    SelectSeq(df, LAMBDA r : ~(r.club_name = c /\ r.email_type = e))

\* What one step has to satisfy for C21
C21_Step ==
    /\ \A c \in Clubs, e \in EmailTypes :
           Cardinality(email_idx(tracking_df', c, e)) <= 1
    /\ EmailCalled("save_generated_email") =>
           LET c == email_ret'.club_name
               e == email_ret'.email_type
               n == Len(tracking_df')
           IN  /\ email_idx(tracking_df', c, e) = {n}
               /\ tracking_df'[n].created_at = now
               /\ tracking_df'[n].generated_email = "generated"
               /\ other_email_rows(tracking_df', c, e) =
                      other_email_rows(tracking_df, c, e)

\* C21: after any sequence of save_generated_email, mark_email_as_sent,
\* save_email_modification and delete_email_record calls the tracking file
\* holds at most one row per (club, stage); a save for a (club, stage) leaves
\* the new row as the only one of that (club, stage) and keeps the others.
C21_OneEmailRecordPerClubAndStage == [][C21_Step]_vars

\* A third call, a save for a (club, stage), that leaves its row behind the
\* row of another stage of the club: two rows after three calls
C21_Witness ==
    /\ email_ret # None
    /\ email_ret.op = "save_generated_email"
    /\ email_calls = 3
    /\ now = 0
    /\ Len(tracking_df) = 2
    /\ tracking_df[2].club_name = email_ret.club_name
    /\ tracking_df[2].email_type = email_ret.email_type
    /\ tracking_df[1].club_name = email_ret.club_name
    /\ tracking_df[1].email_type # email_ret.email_type

(***************************************************************************)
(* Claims about save_response, checked under SpecResponses                 *)
(***************************************************************************)
\* This step is a save_response call
SaveResponseCalled == response_calls' = response_calls + 1

\* The (club, stage, contact) of the call already has a stored response
IsDuplicate ==
    existing_responses(responses_df, response_ret'.club_name,
                       response_ret'.email_type, response_ret'.contact_email) # <<>>

\* What one step has to satisfy for C22
C22_Step ==
    (SaveResponseCalled /\ IsDuplicate) =>
        /\ response_ret'.result = TRUE
        /\ responses_df' = responses_df
        /\ status_df' = status_df
        /\ notifications_df' = notifications_df

\* C22: save_response for a (club, stage, contact) that already has a stored
\* response is a no-op reported as success: it returns True and leaves the
\* response file, the status file and the notification log unchanged.
C22_DuplicateResponseIsNoOpSuccess == [][C22_Step]_vars

\* What one step has to satisfy for C28
C28_Step ==
    (SaveResponseCalled /\ ~HasRecord(status_df, response_ret'.club_name)) =>
        /\ response_ret'.result = FALSE
        /\ responses_df' = responses_df

\* C28: save_response persists a response row and returns True only if
\* record_response succeeded for the club: for a club without a StatusRecord
\* it returns False and leaves no response row behind.
C28_ResponseStoredOnlyIfRecorded == [][C28_Step]_vars

(***************************************************************************)
(* Claims about the follow-up query, checked under SpecFollowUp            *)
(***************************************************************************)
\* The (club, stage) pairs a follow-up result names
Returned(result) == {<<result[i].club_name, result[i].email_type>> : i \in 1..Len(result)}

\* The (club, stage) pairs whose status is email_sent and whose sent date is
\* more than d days before t
Overdue(df, t, d) ==
    {p \in Clubs \X EmailTypes :
        /\ HasRecord(df, p[1])
        /\ StatusRow(df, p[1]).status[p[2]] = EMAIL_SENT
        /\ t - StatusRow(df, p[1]).sent_date[p[2]] > d}

\* C23: get_clubs_needing_follow_up(d) returns a club's stage, once, exactly
\* when the stage's status is email_sent and its sent date is more than d
\* days before now.
C23_FollowUpListsOverdueStages ==
    (status_ret # None /\ status_ret.op = "get_clubs_needing_follow_up") =>
        /\ Returned(status_ret.result) =
               Overdue(status_df, status_ret.at, status_ret.days_since_sent)
        /\ Len(status_ret.result) = Cardinality(Returned(status_ret.result))
        /\ \A i \in 1..Len(status_ret.result) :
               status_ret.result[i].days_since_sent > status_ret.days_since_sent

\* The query for 7 days on day 10 returns the stage sent on day 0 and leaves
\* out the stage of the other club sent on day 8
C23_Witness ==
    /\ status_ret # None
    /\ status_ret.op = "get_clubs_needing_follow_up"
    /\ status_ret.days_since_sent = 7
    /\ status_ret.at = 10
    /\ Len(status_ret.result) = 1
    /\ status_ret.result[1].days_since_sent = 10
    /\ Len(status_df) = 2
    /\ \E e \in EmailTypes : /\ status_df[2].status[e] = EMAIL_SENT
                             /\ status_df[2].sent_date[e] = 8

\* The query leaves out a stage sent 10 days ago that has a response
C23_WitnessResponded ==
    /\ status_ret # None
    /\ status_ret.op = "get_clubs_needing_follow_up"
    /\ status_ret.days_since_sent = 7
    /\ status_ret.at = 10
    /\ status_ret.result = <<>>
    /\ Len(status_df) = 1
    /\ \E e \in EmailTypes : /\ status_df[1].status[e] = POSITIVE_RESPONSE
                             /\ status_df[1].sent_date[e] = 0

(***************************************************************************)
(* Further claims about the status file                                    *)
(***************************************************************************)
\* What one step has to satisfy for C24
C24_Step ==
    \A c \in Clubs :
        /\ Cardinality(club_idx(status_df', c)) <= 1
        /\ HasRecord(status_df, c) => HasRecord(status_df', c)
        /\ (~HasRecord(status_df, c) /\ HasRecord(status_df', c)) =>
               /\ Called("update_email_sent")
               /\ status_ret'.club_name = c
               /\ status_ret'.result
        /\ (Called("update_email_sent") /\ status_ret'.club_name = c
            /\ status_ret'.result) => HasRecord(status_df', c)

\* C24: the status file holds at most one StatusRecord per club; a record
\* appears only in a successful update_email_sent for its club, every such
\* call leaves one, and no operation removes it.
C24_OneStatusRecordPerClub == [][C24_Step]_vars

\* Three sends, two of them to the same club, and one record for each club
C24_Witness ==
    /\ calls = 3
    /\ Len(status_df) = 2
    /\ Len(notifications_df) = 3
    /\ \A i \in 1..3 : notifications_df[i].notification_type = "email_sent"
    /\ notifications_df[1].club_name = notifications_df[2].club_name
    /\ notifications_df[3].club_name # notifications_df[1].club_name
    /\ \A c \in Clubs : Cardinality(club_idx(status_df, c)) = 1

\* The four sub-states of a stage
SubStates == {NoValue, EMAIL_SENT, POSITIVE_RESPONSE, NEGATIVE_RESPONSE}

\* C25: in every reachable state each stage's status of every StatusRecord is
\* not-contacted (unset), email_sent, positive_response or negative_response,
\* whatever response type the callers pass.
C25_StatusIsOneOfFourSubStates ==
    \A i \in 1..Len(status_df), e \in EmailTypes : status_df[i].status[e] \in SubStates

\* C27: all stored notifications have pairwise distinct identifiers after any
\* sequence of sends and responses, two events for the same club, stage and
\* kind at the same clock reading included.
C27_NotificationIdsAreDistinct ==
    \A i, j \in 1..Len(notifications_df) :
        i # j => notifications_df[i].notification_id # notifications_df[j].notification_id

\* What one step has to satisfy for C29
C29_Step ==
    (Called("update_email_sent") \/ Called("record_response")) =>
        LET a == status_ret'.club_name
            s == status_ret'.email_type
        IN  /\ \A c \in Clubs \ {a} :
                   /\ HasRecord(status_df', c) = HasRecord(status_df, c)
                   /\ HasRecord(status_df, c) =>
                          StatusRow(status_df', c) = StatusRow(status_df, c)
            /\ HasRecord(status_df, a) =>
                   /\ HasRecord(status_df', a)
                   /\ \A e \in EmailTypes \ {s} :
                          /\ StatusRow(status_df', a).sent_date[e] =
                                 StatusRow(status_df, a).sent_date[e]
                          /\ StatusRow(status_df', a).status[e] =
                                 StatusRow(status_df, a).status[e]
                          /\ StatusRow(status_df', a).response_date[e] =
                                 StatusRow(status_df, a).response_date[e]
                          /\ StatusRow(status_df', a).response_type[e] =
                                 StatusRow(status_df, a).response_type[e]
                   /\ status_ret'.op = "update_email_sent" =>
                          StatusRow(status_df', a).priority_level =
                              StatusRow(status_df, a).priority_level

\* C29: update_email_sent(A, s) and record_response(A, s, outcome) leave
\* every other club's StatusRecord unchanged and leave A's sent date, status,
\* response date and response type of the stages other than s unchanged;
\* update_email_sent leaves A's priority unchanged when the record existed.
C29_CallsTouchOnlyTheirClubAndStage == [][C29_Step]_vars

\* A checkup send for a club whose introduction had a positive response, made
\* when the other club has a record: the priority is still high
C29_Witness ==
    /\ status_ret # None
    /\ status_ret.op = "update_email_sent"
    /\ status_ret.email_type = "checkup"
    /\ calls = 4
    /\ Len(status_df) = 2
    /\ StatusRow(status_df, status_ret.club_name).status["introduction"] = POSITIVE_RESPONSE
    /\ StatusRow(status_df, status_ret.club_name).status["checkup"] = EMAIL_SENT
    /\ StatusRow(status_df, status_ret.club_name).priority_level = "high"


(***************************************************************************)
(* Concurrent status-manager calls.  No call takes a lock: each reads the  *)
(* status file, changes its own DataFrame and writes the whole file back,  *)
(* then does the same with the notification file.  Two callers run, their  *)
(* reads and writes interleaved in every order.                            *)
(***************************************************************************)
MaxRaceCalls == 3

RaceResponses == {POSITIVE_RESPONSE}

RaceCalls ==
    {[op |-> "update_email_sent", club_name |-> c, email_type |-> e,
      response_type |-> NoValue, notes |-> n] :
         c \in Clubs, e \in EmailTypes, n \in Notes}
    \cup
    {[op |-> "record_response", club_name |-> c, email_type |-> e,
      response_type |-> r, notes |-> n] :
         c \in Clubs, e \in EmailTypes, r \in RaceResponses, n \in Notes}

\* Mutant: the write starts from the file as it is at the write
written_status_rereads(df, file, call, t) ==
    IF call.op = "update_email_sent"
    THEN update_email_sent_df(file, call.club_name, call.email_type, call.notes, t)
    ELSE record_response_df(file, call.club_name, call.email_type,
                            call.response_type, call.notes, t).df

\* df.to_csv(self.status_csv_path): the file a call writes, from the
\* DataFrame df it read earlier; the file of the moment plays no part
written_status(df, file, call, t) ==
    IF call.op = "update_email_sent"
    THEN update_email_sent_df(df, call.club_name, call.email_type, call.notes, t)
    ELSE record_response_df(df, call.club_name, call.email_type,
                            call.response_type, call.notes, t).df

\* The notification a call creates
call_notification(ndf, call, t) ==
    IF call.op = "update_email_sent"
    THEN _create_notification(ndf, call.club_name, call.email_type, "email_sent",
                              <<call.email_type, "email sent to", call.club_name>>, t)
    ELSE _create_notification(ndf, call.club_name, call.email_type,
                              "response_received",
                              <<"New", call.response_type, "response from",
                                call.club_name>>, t)

\* df = pd.read_csv(self.status_csv_path); record_response returns False
\* here when the DataFrame has no row of the club
read_status(p, call) ==
    /\ calls < MaxRaceCalls
    /\ writers[p].pc = "idle"
    /\ calls' = calls + 1
    /\ writers' =
           [writers EXCEPT ![p] =
               IF call.op = "record_response" /\ club_idx(status_df, call.club_name) = {}
               THEN [pc |-> "idle", call |-> call, result |-> FALSE]
               ELSE [pc |-> "status_read", call |-> call, df |-> status_df]]
    /\ UNCHANGED <<now, ticks, research_vars, status_df, notifications_df, status_ret,
                   parse_vars, cost_vars, email_vars, response_vars, researchers>>

\* df.to_csv(self.status_csv_path, index=False)
write_status(p) ==
    /\ writers[p].pc = "status_read"
    /\ status_df' = written_status(writers[p].df, status_df, writers[p].call, now)
    /\ writers' = [writers EXCEPT ![p] = [pc |-> "status_written", call |-> @.call]]
    /\ UNCHANGED <<now, ticks, research_vars, notifications_df, status_ret, calls,
                   parse_vars, cost_vars, email_vars, response_vars, researchers>>

\* _create_notification: df = pd.read_csv(self.notifications_csv_path)
read_notifications(p) ==
    /\ writers[p].pc = "status_written"
    /\ writers' = [writers EXCEPT ![p] = [pc |-> "notifications_read",
                                          call |-> @.call, ndf |-> notifications_df]]
    /\ UNCHANGED <<now, ticks, research_vars, status_vars, parse_vars, cost_vars,
                   email_vars, response_vars, researchers>>

\* _create_notification: df.to_csv(self.notifications_csv_path, index=False);
\* the call then returns True
write_notifications(p) ==
    /\ writers[p].pc = "notifications_read"
    /\ notifications_df' = call_notification(writers[p].ndf, writers[p].call, now)
    /\ writers' = [writers EXCEPT ![p] = [pc |-> "idle", call |-> @.call,
                                          result |-> TRUE]]
    /\ UNCHANGED <<now, ticks, research_vars, status_df, status_ret, calls,
                   parse_vars, cost_vars, email_vars, response_vars, researchers>>

NextStatusRace ==
    \/ \E p \in Procs, call \in RaceCalls : read_status(p, call)
    \/ \E p \in Procs : write_status(p)
    \/ \E p \in Procs : read_notifications(p)
    \/ \E p \in Procs : write_notifications(p)

SpecStatusRace == Init /\ [][NextStatusRace]_vars

\* The step is the status-file write of caller p
WritesStatus(p) ==
    writers[p].pc = "status_read" /\ writers'[p].pc = "status_written"

\* What one step has to satisfy for C26
C26_Step ==
    \A p \in Procs :
        WritesStatus(p) =>
            LET call == writers[p].call
                read == writers[p].df
            IN  /\ \A c \in Clubs \ {call.club_name} :
                       /\ HasRecord(status_df', c) = HasRecord(read, c)
                       /\ HasRecord(read, c) =>
                              StatusRow(status_df', c) = StatusRow(read, c)
                /\ HasRecord(read, call.club_name) =>
                       \A e \in EmailTypes \ {call.email_type} :
                           /\ StatusRow(status_df', call.club_name).sent_date[e] =
                                  StatusRow(read, call.club_name).sent_date[e]
                           /\ StatusRow(status_df', call.club_name).status[e] =
                                  StatusRow(read, call.club_name).status[e]

\* C26: the last writer wins at file granularity.  The status file a call
\* writes holds, for every club other than the call's own, exactly the record
\* the call READ (none when it read none), and for the call's own club the
\* other stages as it read them: what another caller wrote between this
\* call's read and its write is gone from the store, be it for the same
\* club or for a different one.
C26_LastWriterWinsAtFileGranularity == [][C26_Step]_vars

\* Two sends to two different clubs have both returned True, and the store
\* holds the record of only one of them.
C26_Witness ==
    /\ calls = 2
    /\ \A p \in Procs :
           /\ writers[p].pc = "idle"
           /\ "result" \in DOMAIN writers[p]
           /\ writers[p].result
           /\ writers[p].call.op = "update_email_sent"
    /\ writers["p1"].call.club_name # writers["p2"].call.club_name
    /\ Len(status_df) = 1

\* A response's write has wiped out the send another caller recorded for the
\* same club in between: the stage reads as never sent, the send returned True.
C26_WitnessSameClub ==
    /\ \A p \in Procs : writers[p].pc = "idle" /\ "result" \in DOMAIN writers[p]
                        /\ writers[p].result
    /\ writers["p1"].call.op = "update_email_sent"
    /\ writers["p2"].call.op = "record_response"
    /\ writers["p1"].call.club_name = writers["p2"].call.club_name
    /\ writers["p1"].call.email_type # writers["p2"].call.email_type
    /\ HasRecord(status_df, writers["p1"].call.club_name)
    /\ StatusRow(status_df, writers["p1"].call.club_name).status[writers["p1"].call.email_type] = NoValue


(***************************************************************************)
(* Concurrent research_club_with_o3 calls.  The cache lookup reads the     *)
(* research file and, for an expired record, writes it back without the    *)
(* club's rows; after the generator has answered, _save_research_to_csv    *)
(* reads the file again and writes it back with the club's rows replaced   *)
(* by the new one.  Nothing is locked between the steps.                   *)
(***************************************************************************)
MaxResearchCalls == 2

RaceOutcomes ==
    {[ok |-> FALSE],
     [ok |-> TRUE, content |-> <<INTRO_MARKER, "w", CHECKUP_MARKER, "w",
                                 ACCEPTANCE_MARKER, "w">>, usage |-> None]}

\* get_cached_research, lines 149-169: the file is read; a fresh record is
\* returned at once, an expired one is to be evicted, no record is a miss
read_cache(p, club_name) ==
    LET r == researchers[p]
        cached == get_cached_research(research_df, club_name, now)
        rows == club_research_rows(research_df, club_name)
    IN  /\ r.pc = "idle"
        /\ r.done < MaxResearchCalls
        /\ researchers' =
               [researchers EXCEPT ![p] =
                   IF cached.result # None
                   THEN [pc |-> "idle", done |-> r.done + 1, club_name |-> club_name,
                         at |-> now, from_cache |-> TRUE]
                   ELSE [pc |-> IF rows # <<>> THEN "evict" ELSE "generate",
                         done |-> r.done, club_name |-> club_name,
                         df |-> research_df]]
        /\ UNCHANGED <<now, ticks, research_vars, status_vars, parse_vars, cost_vars,
                       email_vars, response_vars, writers>>

\* get_cached_research, lines 171-173: the DataFrame read before, without
\* the club's rows, is written over the file
evict(p) ==
    LET r == researchers[p]
    IN  /\ r.pc = "evict"
        /\ research_df' = drop_club_rows(r.df, r.club_name)
        /\ researchers' = [researchers EXCEPT ![p] =
               [pc |-> "generate", done |-> r.done, club_name |-> r.club_name]]
        /\ UNCHANGED <<now, ticks, research_log, research_ret, status_vars,
                       parse_vars, cost_vars, email_vars, response_vars, writers>>

\* Lines 258-286 and 293-304: the generator answers or fails
generate(p, outcome) ==
    LET r == researchers[p]
    IN  /\ r.pc = "generate"
        /\ researchers' = [researchers EXCEPT ![p] =
               [pc |-> "save", done |-> r.done, club_name |-> r.club_name,
                outcome |-> outcome]]
        /\ UNCHANGED <<now, ticks, research_vars, status_vars, parse_vars, cost_vars,
                       email_vars, response_vars, writers>>

\* _save_research_to_csv, lines 362-363: the file is read again
read_research(p) ==
    LET r == researchers[p]
    IN  /\ r.pc = "save"
        /\ researchers' = [researchers EXCEPT ![p] =
               [pc |-> "write", done |-> r.done, club_name |-> r.club_name,
                outcome |-> r.outcome, df |-> research_df]]
        /\ UNCHANGED <<now, ticks, research_vars, status_vars, parse_vars, cost_vars,
                       email_vars, response_vars, writers>>

\* _save_research_to_csv, lines 375-397: the DataFrame read before, with the
\* club's rows replaced by the new entry, is written over the file; the call
\* returns
write_research(p) ==
    LET r == researchers[p]
    IN  /\ r.pc = "write"
        /\ research_df' = research_after_miss(r.df, r.club_name, r.outcome, now).df
        /\ researchers' = [researchers EXCEPT ![p] =
               [pc |-> "idle", done |-> r.done + 1, club_name |-> r.club_name,
                at |-> now, from_cache |-> FALSE]]
        /\ UNCHANGED <<now, ticks, research_log, research_ret, status_vars,
                       parse_vars, cost_vars, email_vars, response_vars, writers>>

NextResearchRace ==
    \/ \E p \in Procs, c \in Clubs : read_cache(p, c)
    \/ \E p \in Procs : evict(p)
    \/ \E p \in Procs, o \in RaceOutcomes : generate(p, o)
    \/ \E p \in Procs : read_research(p)
    \/ \E p \in Procs : write_research(p)
    \/ \E d \in TickSteps : Tick(d)

SpecResearchRace == Init /\ [][NextResearchRace]_vars

\* C30: whatever the order of the reads, the generator calls and the writes
\* of concurrent research_club_with_o3 calls, for one club or for several,
\* the research store never holds two rows of the same club.
C30_NeverTwoRowsForAClub ==
    \A c \in Clubs : Len(club_research_rows(research_df, c)) <= 1

\* Two calls for the same club have both missed the cache with no time passing,
\* so the second read the file before the first wrote it, and both have
\* saved; the store holds one row of the club.
C30_Witness ==
    /\ \A p \in Procs :
           /\ researchers[p].pc = "idle"
           /\ researchers[p].done >= 1
           /\ ~researchers[p].from_cache
    /\ researchers["p1"].club_name = researchers["p2"].club_name
    /\ ticks = 0
    /\ Len(club_research_rows(research_df, researchers["p1"].club_name)) = 1

\* An eviction has emptied the store between the read and the write of a save
C30_WitnessEviction ==
    /\ \E p \in Procs : researchers[p].pc = "generate" /\ researchers[p].done >= 1
    /\ \E p \in Procs : researchers[p].pc = "write"
                        /\ club_research_rows(researchers[p].df, researchers[p].club_name) # <<>>
    /\ research_df = <<>>

====
